---- MODULE Spec2Model ----
(***************************************************************************)
(* Model of the ProtonDB ingestion pipeline (extract_protondb_data.py):    *)
(* timestamp inference from archive / file names, normalisation of one     *)
(* JSON payload entry and its reconciliation against the `games` table,    *)
(* one whole run of the walker with its commits, temporary directories and *)
(* failing inputs; and of the catalog importer (create_steam_db.py).       *)
(*                                                                         *)
(* Value encoding.  Python None and SQL NULL are the empty tuple None; a   *)
(* present scalar v is the one-element tuple <<v>>.  A dictionary key that *)
(* may be missing is <<>> when missing and <<value>> when present, so a    *)
(* present key holding null is <<None>>.  File names are sequences of      *)
(* one-character strings, so that the regular expression of the source is  *)
(* matched character by character.                                         *)
(***************************************************************************)
EXTENDS Integers, Sequences, FiniteSets, TLC

VARIABLES
    games,            \* the `games` table as seen by the connection: app_id -> row
    processed_games,  \* self.processed_games
    pc,               \* position of the walker: "idle", "loop", "call", "tally", ...
    filename,         \* name of the archive / loose file being processed
    timestamp,        \* archive_timestamp / file_timestamp of that input
    entry,            \* the payload entry handed to process_json_entry
    ret,              \* (is_new, is_updated) returned by process_json_entry
    entries_processed,\* per-input counter of process_archive / process_json_file
    games_added,      \* per-input counter
    games_updated,    \* per-input counter
    stats,            \* self.stats: the totals of the run
    utc_offset,       \* offset of the process's local time zone from UTC, in seconds
    observed,         \* history: the normalised (app_id, timestamp) pairs reconciled so far
    committed,        \* the `games` table as last committed: what a crash leaves
    disk,             \* names of the files present in the archive directory
    archives,         \* the list get_archive_files returned
    json_files,       \* the list get_json_files returned
    idx,              \* position of run()'s current loop in its list, from 1
    members_left,     \* JSON files of the extracted archive not yet visited
    scratch,          \* the temporary directories that exist, by their archive
    remove_json,      \* self.remove_json
    returned,         \* the triple the last process_archive / process_json_file returned
    log,              \* history: the inputs handed to process_archive / process_json_file
    obs_log,          \* history: the (entry, timestamp) pairs handed to process_json_entry
    failed,           \* history: the steps whose errors were logged
    conn,             \* self.conn: "none", "open" or "closed"
    apps_table,       \* create_steam_db: the `apps` table, appid -> name
    cat_pc,           \* create_steam_db: position of main
    reset_choice,     \* create_steam_db: the operator's answer to the reset prompt
    apps,             \* create_steam_db: the list fetch_steam_apps returned
    duplicate_analysis, \* create_steam_db: what analyze_duplicates returned
    inserted_count,   \* create_steam_db: what populate_database returned
    apps_before       \* history: the `apps` table when main started

\* the state of run() around the engine
runVars == <<committed, disk, archives, json_files, idx, members_left, scratch,
             remove_json, returned, log, obs_log, failed, conn>>

\* the state of the catalog importer, create_steam_db.py
catVars == <<apps_table, cat_pc, reset_choice, apps, duplicate_analysis,
             inserted_count, apps_before>>

vars == <<games, processed_games, pc, filename, timestamp, entry, ret,
          entries_processed, games_added, games_updated, stats, utc_offset,
          observed, runVars, catVars>>

---------------------------------------------------------------------------
(* Values *)

None == <<>>

\* a present (non-null) scalar
Val(v) == <<v>>

\* Python truthiness of an int-or-None value (`if entry_timestamp and ...`)
TruthyInt(v) == v # None /\ v[1] # 0

\* mutant of TruthyStr: only None is falsy, the empty string passes
TruthyStr_EmptyAccepted(v) == v # None

\* Python truthiness of a str-or-None value (`if not app_id or not title`)
TruthyStr(v) == v # None /\ v[1] # ""

---------------------------------------------------------------------------
(* Timestamp inference: process_archive lines 204-244, process_json_file   *)
(* lines 322-361.                                                          *)

LowerCase == {"a","b","c","d","e","f","g","h","i","j","k","l","m",
              "n","o","p","q","r","s","t","u","v","w","x","y","z"}

Digit == {"0","1","2","3","4","5","6","7","8","9"}

DigitVal(c) ==
    CASE c = "0" -> 0 [] c = "1" -> 1 [] c = "2" -> 2 [] c = "3" -> 3
      [] c = "4" -> 4 [] c = "5" -> 5 [] c = "6" -> 6 [] c = "7" -> 7
      [] c = "8" -> 8 [] c = "9" -> 9

\* int(match.group(3)) on a string of decimal digits
RECURSIVE ParseInt(_)
ParseInt(s) ==
    IF s = <<>> THEN 0
    ELSE 10 * ParseInt(SubSeq(s, 1, Len(s) - 1)) + DigitVal(s[Len(s)])

ReportsPrefix == <<"r","e","p","o","r","t","s","_">>

TarGzSuffix == <<".","t","a","r",".","g","z">>

JsonSuffix == <<".","j","s","o","n">>

PiiRemoved == <<"p","i","i","r","e","m","o","v","e","d">>

\* s has the literal lit at position i
LitAt(s, i, lit) ==
    /\ i + Len(lit) - 1 <= Len(s)
    /\ SubSeq(s, i, i + Len(lit) - 1) = lit

\* one past the greedy run of characters of class cls that starts at s[i]
RECURSIVE RunEnd(_, _, _)
RunEnd(s, i, cls) ==
    IF i <= Len(s) /\ s[i] \in cls THEN RunEnd(s, i + 1, cls) ELSE i

\* re.match(r'reports_([a-z]+)(\d*)_(\d{4})' + suffix, s): the three groups,
\* or None.  re.match anchors at the start of s only.  The classes [a-z],
\* \d and "_" are disjoint, so the greedy match is the only candidate.
ReMatch(suffix, s) ==
    LET a == Len(ReportsPrefix) + 1
        b == RunEnd(s, a, LowerCase)
        c == RunEnd(s, b, Digit)
    IN  IF /\ LitAt(s, 1, ReportsPrefix)
           /\ b > a
           /\ LitAt(s, c, <<"_">>)
           /\ c + 4 <= Len(s)
           /\ \A k \in 1..4 : s[c + k] \in Digit
           /\ LitAt(s, c + 5, suffix)
        THEN <<SubSeq(s, a, b - 1), SubSeq(s, b, c - 1), SubSeq(s, c + 1, c + 4)>>
        ELSE None

\* `"piiremoved" in filename`
Contains(s, lit) == \E i \in 1..Len(s) : LitAt(s, i, lit)

MonthAbbr ==
    << <<"j","a","n">>, <<"f","e","b">>, <<"m","a","r">>, <<"a","p","r">>,
       <<"m","a","y">>, <<"j","u","n">>, <<"j","u","l">>, <<"a","u","g">>,
       <<"s","e","p">>, <<"o","c","t">>, <<"n","o","v">>, <<"d","e","c">> >>

\* month_map: abbreviation -> month number
month_map == [m \in {MonthAbbr[i] : i \in 1..12} |->
                 CHOOSE i \in 1..12 : MonthAbbr[i] = m]

\* days from 1970-01-01 to the proleptic Gregorian date y-m-d
DaysFromCivil(y, m, d) ==
    LET yy  == IF m <= 2 THEN y - 1 ELSE y
        era == yy \div 400
        yoe == yy - era * 400
        mp  == (m + 9) % 12
        doy == (153 * mp + 2) \div 5 + d - 1
        doe == yoe * 365 + yoe \div 4 - yoe \div 100 + doy
    IN  era * 146097 + doe - 719468

\* mutant of DatetimeTimestamp: the first day of the month instead of the 15th
DatetimeTimestamp_FirstOfMonth(year, month, off) ==
    IF year < 1 THEN None
    ELSE Val(DaysFromCivil(year, month, 1) * 86400 - off)

\* int(datetime.datetime(year, month, 15).timestamp()) in a zone whose offset
\* from UTC is off seconds; datetime raises ValueError below MINYEAR = 1,
\* which the handler at line 243 turns into "no timestamp"
DatetimeTimestamp(year, month, off) ==
    IF year < 1 THEN None
    ELSE Val(DaysFromCivil(year, month, 15) * 86400 - off)

\* the filename -> timestamp block shared by process_archive (suffix .tar.gz)
\* and process_json_file (suffix .json); now is int(time.time())
InferTimestamp(suffix, name, now, off) ==
    LET match == ReMatch(suffix, name)
    IN  IF match # None
        THEN IF match[1] \in DOMAIN month_map
             THEN DatetimeTimestamp(ParseInt(match[3]), month_map[match[1]], off)
             ELSE None
        ELSE IF Contains(name, PiiRemoved) THEN Val(now) ELSE None

ArchiveTimestamp(name, now, off) == InferTimestamp(TarGzSuffix, name, now, off)

FileTimestamp(name, now, off) == InferTimestamp(JsonSuffix, name, now, off)

---------------------------------------------------------------------------
(* Record normalisation and reconciliation: process_json_entry,            *)
(* lines 135-192.                                                          *)

\* mutant of EntryTimestamp: the caller's timestamp wins when there is one
EntryTimestamp_FallbackFirst(e, ts) ==
    IF ts # None \/ e.timestamp = <<>> THEN ts ELSE e.timestamp[1]

\* entry_data.get("timestamp", timestamp): the key's value when the key is
\* present (null included), the caller's timestamp when it is missing
EntryTimestamp(e, ts) == IF e.timestamp = <<>> THEN ts ELSE e.timestamp[1]

\* `entry_timestamp < first_seen` / `entry_timestamp > last_seen` compare an
\* int with None when the stored bound is NULL: Python raises TypeError
CompareRaises(row, entry_timestamp) ==
    /\ TruthyInt(entry_timestamp)
    /\ (row.first_seen = None \/ row.last_seen = None)

\* mutant of UpdatedRow: the UPDATE also sets the title column
UpdatedRow_TitleRewritten(row, title, entry_timestamp) ==
    [title        |-> title,
     first_seen   |-> IF TruthyInt(entry_timestamp) /\ entry_timestamp[1] < row.first_seen[1]
                      THEN entry_timestamp ELSE row.first_seen,
     last_seen    |-> IF TruthyInt(entry_timestamp) /\ entry_timestamp[1] > row.last_seen[1]
                      THEN entry_timestamp ELSE row.last_seen,
     report_count |-> row.report_count + 1]

\* mutant of UpdatedRow: the two comparisons are exchanged
UpdatedRow_SwappedComparisons(row, title, entry_timestamp) ==
    [title        |-> row.title,
     first_seen   |-> IF TruthyInt(entry_timestamp) /\ entry_timestamp[1] > row.first_seen[1]
                      THEN entry_timestamp ELSE row.first_seen,
     last_seen    |-> IF TruthyInt(entry_timestamp) /\ entry_timestamp[1] < row.last_seen[1]
                      THEN entry_timestamp ELSE row.last_seen,
     report_count |-> row.report_count + 1]

\* mutant of UpdatedRow: last_seen is the latest timestamp reconciled, not the largest
UpdatedRow_LastWriteWins(row, title, entry_timestamp) ==
    [title        |-> row.title,
     first_seen   |-> IF TruthyInt(entry_timestamp) /\ entry_timestamp[1] < row.first_seen[1]
                      THEN entry_timestamp ELSE row.first_seen,
     last_seen    |-> IF TruthyInt(entry_timestamp) THEN entry_timestamp ELSE row.last_seen,
     report_count |-> row.report_count + 1]

\* the row written by the UPDATE of lines 161-176; the payload's title is in
\* scope there and is not among the columns the statement sets
UpdatedRow(row, title, entry_timestamp) ==
    LET first_seen == IF TruthyInt(entry_timestamp) /\ entry_timestamp[1] < row.first_seen[1]
                      THEN entry_timestamp ELSE row.first_seen
        last_seen  == IF TruthyInt(entry_timestamp) /\ entry_timestamp[1] > row.last_seen[1]
                      THEN entry_timestamp ELSE row.last_seen
    IN  [title        |-> row.title,
         first_seen   |-> first_seen,
         last_seen    |-> last_seen,
         report_count |-> row.report_count + 1]

\* mutant of InsertedRow: last_seen is left out of the INSERT
InsertedRow_NoLastSeen(title, entry_timestamp) ==
    [title        |-> title,
     first_seen   |-> entry_timestamp,
     last_seen    |-> None,
     report_count |-> 1]

\* the row written by the INSERT of lines 180-183
InsertedRow(title, entry_timestamp) ==
    [title        |-> title,
     first_seen   |-> entry_timestamp,
     last_seen    |-> entry_timestamp,
     report_count |-> 1]

Skipped(g, pg) == [games |-> g, processed_games |-> pg, ret |-> <<FALSE, FALSE>>]

\* process_json_entry(entry_data, timestamp) on table g: the table, the
\* processed set and the returned (is_new, is_updated).  A payload that is
\* not an object, and a missing "app" / "steam" level, end in the same
\* (False, False) as a missing appId.
process_json_entry(g, pg, e, ts) ==
    IF ~e.is_object THEN Skipped(g, pg)
    ELSE IF ~TruthyStr(e.appId) \/ ~TruthyStr(e.title) THEN Skipped(g, pg)
    ELSE LET app_id          == e.appId[1]
             entry_timestamp == EntryTimestamp(e, ts)
         IN  IF app_id \in DOMAIN g
             THEN IF CompareRaises(g[app_id], entry_timestamp)
                  THEN Skipped(g, pg)
                  ELSE [games |-> [g EXCEPT ![app_id] = UpdatedRow(g[app_id], e.title[1], entry_timestamp)],
                        processed_games |-> pg \cup {app_id},
                        ret |-> <<FALSE, TRUE>>]
             ELSE [games |-> [a \in DOMAIN g \cup {app_id} |->
                                 IF a = app_id
                                 THEN InsertedRow(e.title[1], entry_timestamp)
                                 ELSE g[a]],
                   processed_games |-> pg \cup {app_id},
                   ret |-> <<TRUE, FALSE>>]

---------------------------------------------------------------------------
(* Inputs of the model *)

\* most payload entries one run reads
MaxEntries == 3

\* largest per-entry timestamp of a payload
MaxTs == 1

AppIds == {"10", "20"}

TimestampFields == {<<>>, <<None>>} \cup {<<Val(t)>> : t \in 0..MaxTs}

\* every timestamp field under the first title; the second title, which
\* differs in its capitalisation only, without and with a timestamp
ValidEntries ==
    [is_object : {TRUE}, appId : {Val(a) : a \in AppIds},
     title : {Val("Foo")}, timestamp : TimestampFields]
    \cup
    [is_object : {TRUE}, appId : {Val(a) : a \in AppIds},
     title : {Val("foo")}, timestamp : {<<>>, <<Val(1)>>}]

\* payloads that lack an essential field, or hold it empty
InvalidEntries ==
    [is_object : {TRUE}, appId : {None, Val("")}, title : {None, Val("Foo")},
     timestamp : {<<Val(1)>>}]
    \cup
    [is_object : {TRUE}, appId : {Val("10")}, title : {None, Val("")},
     timestamp : {<<>>}]

\* a payload that is no JSON object (a string, a number, null)
NotAnObject == [is_object |-> FALSE, appId |-> None, title |-> None, timestamp |-> <<>>]

Entries == ValidEntries \cup InvalidEntries \cup {NotAnObject}

\* the walker holds no entry
NoEntry == NotAnObject

\* zones of the host: UTC-5, UTC, UTC+9
UtcOffsets == {-18000, 0, 32400}

Clocks == {1700000000}

Jan1970 == <<"_","j","a","n","_","1","9","7","0">>

ArchiveNames ==
    { <<"r","e","p","o","r","t","s">> \o Jan1970 \o TarGzSuffix,
      <<"b","a","c","k","u","p">> \o TarGzSuffix }

JsonNames ==
    { <<"r","e","p","o","r","t","s">> \o Jan1970 \o JsonSuffix,
      <<"n","o","t","e","s">> \o JsonSuffix }

---------------------------------------------------------------------------
(* The walker: process_archive lines 194-310, process_json_file 312-426.   *)
(* `games` is the table as the run's connection sees it; the walker is at  *)
(* "idle" between inputs, at "loop" inside one, at "call" with an entry    *)
(* read and at "tally" with the entry's result to count.                  *)

NoStats == [total_entries_processed |-> 0, total_games_added |-> 0,
            total_games_updated |-> 0]

\* run() has not started: nothing is committed, discovered or extracted
NoRun ==
    /\ committed = << >>
    /\ disk = {}
    /\ archives = << >>
    /\ json_files = << >>
    /\ idx = 0
    /\ members_left = 0
    /\ scratch = {}
    /\ remove_json = FALSE
    /\ returned = <<0, 0, 0>>
    /\ log = << >>
    /\ obs_log = << >>
    /\ failed = {}
    /\ conn = "none"

\* the catalog importer is not running
NoImport ==
    /\ apps_table = << >>
    /\ cat_pc = "off"
    /\ reset_choice = << >>
    /\ apps = << >>
    /\ duplicate_analysis = << >>
    /\ inserted_count = 0
    /\ apps_before = << >>

Init ==
    /\ games = << >>
    /\ processed_games = {}
    /\ pc = "idle"
    /\ filename = << >>
    /\ timestamp = None
    /\ entry = NoEntry
    /\ ret = <<FALSE, FALSE>>
    /\ entries_processed = 0
    /\ games_added = 0
    /\ games_updated = 0
    /\ stats = NoStats
    /\ utc_offset = 0
    /\ observed = {}
    /\ NoRun
    /\ NoImport

\* process_archive up to its loop: the counters and archive_timestamp
ProcessArchiveBegin(name, now) ==
    /\ pc = "idle"
    /\ pc' = "loop"
    /\ filename' = name
    /\ timestamp' = ArchiveTimestamp(name, now, utc_offset)
    /\ entries_processed' = 0
    /\ games_added' = 0
    /\ games_updated' = 0
    /\ UNCHANGED <<runVars, catVars>>
    /\ UNCHANGED <<games, processed_games, entry, ret, stats, utc_offset, observed>>

\* process_json_file up to its loop: the counters and file_timestamp
ProcessJsonFileBegin(name, now) ==
    /\ pc = "idle"
    /\ pc' = "loop"
    /\ filename' = name
    /\ timestamp' = FileTimestamp(name, now, utc_offset)
    /\ entries_processed' = 0
    /\ games_added' = 0
    /\ games_updated' = 0
    /\ UNCHANGED <<runVars, catVars>>
    /\ UNCHANGED <<games, processed_games, entry, ret, stats, utc_offset, observed>>

\* the loop reads the next payload entry e of the input and counts it
\* (lines 264-265, 272, 371-372, 384)
ReadEntry(e) ==
    /\ pc = "loop"
    /\ stats.total_entries_processed + entries_processed < MaxEntries
    /\ pc' = "call"
    /\ entry' = e
    /\ entries_processed' = entries_processed + 1
    /\ UNCHANGED <<runVars, catVars>>
    /\ UNCHANGED <<games, processed_games, filename, timestamp, ret, games_added,
                   games_updated, stats, utc_offset, observed>>

\* self.process_json_entry(entry, archive_timestamp), on the walker's variables
EngineCall ==
    /\ pc = "call"
    /\ LET r == process_json_entry(games, processed_games, entry, timestamp)
       IN  /\ games' = r.games
           /\ processed_games' = r.processed_games
           /\ ret' = r.ret
           /\ observed' = IF entry.is_object /\ TruthyStr(entry.appId) /\ TruthyStr(entry.title)
                          THEN observed \cup {<<entry.appId[1], EntryTimestamp(entry, timestamp)>>}
                          ELSE observed
    /\ pc' = "tally"
    /\ UNCHANGED <<filename, timestamp, entry, entries_processed, games_added,
                   games_updated, stats, utc_offset>>

ProcessJsonEntry ==
    /\ EngineCall
    /\ UNCHANGED <<runVars, catVars>>

\* `if is_new: games_added += 1 / elif is_updated: games_updated += 1`; the
\* entry and the returned pair are dead once counted
CountResult ==
    /\ pc = "tally"
    /\ games_added' = IF ret[1] THEN games_added + 1 ELSE games_added
    /\ games_updated' = IF ~ret[1] /\ ret[2] THEN games_updated + 1 ELSE games_updated
    /\ entry' = NoEntry
    /\ ret' = <<FALSE, FALSE>>
    /\ pc' = "loop"
    /\ UNCHANGED <<games, processed_games, filename, timestamp, entries_processed,
                   stats, utc_offset, observed>>

\* the body of the entry loop of an archive's payload file (lines 266-269)
Tally ==
    /\ CountResult
    /\ UNCHANGED <<runVars, catVars>>

\* after the loop: the statistics of lines 286-288 / 394-396 and the return
Finish ==
    /\ pc = "loop"
    /\ stats' = [total_entries_processed |-> stats.total_entries_processed + entries_processed,
                 total_games_added       |-> stats.total_games_added + games_added,
                 total_games_updated     |-> stats.total_games_updated + games_updated]
    /\ pc' = "idle"
    /\ filename' = << >>
    /\ timestamp' = None
    /\ entries_processed' = 0
    /\ games_added' = 0
    /\ games_updated' = 0
    /\ UNCHANGED <<runVars, catVars>>
    /\ UNCHANGED <<games, processed_games, entry, ret, utc_offset, observed>>

Next ==
    \/ \E name \in ArchiveNames, now \in Clocks : ProcessArchiveBegin(name, now)
    \/ \E name \in JsonNames, now \in Clocks : ProcessJsonFileBegin(name, now)
    \/ \E e \in Entries : ReadEntry(e)
    \/ ProcessJsonEntry
    \/ Tally
    \/ Finish

Spec == Init /\ [][Next]_vars

---------------------------------------------------------------------------
(* Timestamp inference on its own: the walker opens inputs whose names are *)
(* drawn from a grammar around the naming convention, and reads no entry.  *)

\* glob("*.tar.gz") / glob("*.json") of get_archive_files / get_json_files
EndsWith(s, lit) ==
    /\ Len(s) >= Len(lit)
    /\ SubSeq(s, Len(s) - Len(lit) + 1, Len(s)) = lit

InferPrefixes == {ReportsPrefix, <<"x">> \o ReportsPrefix}

InferStems ==
    {MonthAbbr[i] : i \in 1..12}
    \cup {<<"j","a","n","u","a","r","y">>, PiiRemoved, <<"J","a","n">>, << >>}

InferDigits == {<< >>, <<"2">>, <<"1","0">>}

InferSeparators == {<<"_">>, << >>}

InferYears ==
    {<<"0","0","0","0">>, <<"1","9","6","9">>, <<"1","9","7","0">>,
     <<"2","0","2","0">>, <<"2","0","3","7">>, <<"2","0","2">>,
     <<"2","0","2","0","1">>, << >>}

InferExts ==
    {TarGzSuffix, JsonSuffix,
     TarGzSuffix \o <<".","o","l","d">> \o TarGzSuffix,
     JsonSuffix \o <<".","b","a","k">> \o JsonSuffix,
     <<".","t","x","t">> \o JsonSuffix,
     <<".","t","g","z">> \o TarGzSuffix}

InferNames ==
    {p \o m \o d \o u \o y \o x :
        p \in InferPrefixes, m \in InferStems, d \in InferDigits,
        u \in InferSeparators, y \in InferYears, x \in InferExts}

InferInit ==
    /\ games = << >>
    /\ processed_games = {}
    /\ pc = "idle"
    /\ filename = << >>
    /\ timestamp = None
    /\ entry = NoEntry
    /\ ret = <<FALSE, FALSE>>
    /\ entries_processed = 0
    /\ games_added = 0
    /\ games_updated = 0
    /\ stats = NoStats
    /\ utc_offset \in UtcOffsets
    /\ observed = {}
    /\ NoRun
    /\ NoImport

InferArchiveNames == {n \in InferNames : EndsWith(n, TarGzSuffix)}

InferJsonNames == {n \in InferNames : EndsWith(n, JsonSuffix)}

InferNext ==
    \/ /\ pc = "idle"
       /\ \E name \in InferArchiveNames, now \in Clocks : ProcessArchiveBegin(name, now)
    \/ /\ pc = "idle"
       /\ \E name \in InferJsonNames, now \in Clocks : ProcessJsonFileBegin(name, now)
    \/ Finish

InferSpec == InferInit /\ [][InferNext]_vars

---------------------------------------------------------------------------
(* Properties of the reconciliation engine, checked under Spec.            *)

\* the step in which process_json_entry runs on `entry` with fallback `timestamp`
EngineStep == pc = "call" /\ pc' = "tally"

\* the payload passes normalisation: an object with non-empty appId and title
Normalized(e) ==
    /\ e.is_object
    /\ e.appId \notin {None, Val("")}
    /\ e.title \notin {None, Val("")}

\* the timestamps of the observations reconciled so far for app_id a
ObservedTs(a) == {o[2] : o \in {x \in observed : x[1] = a}}

MinOf(S) == CHOOSE m \in S : \A x \in S : m <= x

MaxOf(S) == CHOOSE m \in S : \A x \in S : m >= x

\* C1: reconciling a normalized observation whose app_id is not in the store
\* creates exactly one row, with report_count = 1 and first_seen = last_seen =
\* the observation's timestamp (null when it is null), touches no other row,
\* and returns "inserted" (is_new, not is_updated).
C1_InsertNewRow ==
    [][ (EngineStep /\ Normalized(entry) /\ entry.appId[1] \notin DOMAIN games) =>
          LET id == entry.appId[1]
              t  == EntryTimestamp(entry, timestamp)
          IN  /\ DOMAIN games' = DOMAIN games \cup {id}
              /\ games'[id].report_count = 1
              /\ games'[id].first_seen = t
              /\ games'[id].last_seen = t
              /\ \A a \in DOMAIN games : games'[a] = games[a]
              /\ ret' = <<TRUE, FALSE>> ]_vars

\* an insert has just happened, of an observation without any timestamp
C1_Witness ==
    /\ pc = "tally"
    /\ ret = <<TRUE, FALSE>>
    /\ Cardinality(DOMAIN games) = 2
    /\ games[entry.appId[1]].first_seen = None
    /\ games[entry.appId[1]].report_count = 1

\* C2: when every observation reconciled for an app_id carried a timestamp,
\* the row's first_seen is the minimum and its last_seen the maximum of the
\* timestamps observed, for all timestamp values.
C2_MinMaxOfObserved ==
    \A a \in DOMAIN games :
        None \notin ObservedTs(a) =>
            /\ games[a].first_seen = Val(MinOf({t[1] : t \in ObservedTs(a)}))
            /\ games[a].last_seen = Val(MaxOf({t[1] : t \in ObservedTs(a)}))

\* C3: on an existing row null is "no constraint": a present timestamp replaces
\* a null bound, a null timestamp leaves the bounds unchanged, two nulls stay
\* null.
C3_NullIsNoConstraint ==
    [][ (EngineStep /\ Normalized(entry) /\ entry.appId[1] \in DOMAIN games) =>
          LET id  == entry.appId[1]
              t   == EntryTimestamp(entry, timestamp)
              old == games[id]
              new == games'[id]
          IN  /\ (t # None /\ old.first_seen = None) => new.first_seen = t
              /\ (t # None /\ old.last_seen = None) => new.last_seen = t
              /\ t = None => (new.first_seen = old.first_seen /\ new.last_seen = old.last_seen)
        ]_vars

\* C4: every normalized observation of an app_id already in the store raises
\* that row's report_count by exactly 1, whatever its timestamp.
C4_CountAlwaysIncrements ==
    [][ (EngineStep /\ Normalized(entry) /\ entry.appId[1] \in DOMAIN games) =>
          games'[entry.appId[1]].report_count = games[entry.appId[1]].report_count + 1
        ]_vars

\* C5: a row's title is the title of the first observation of its app_id and
\* no later step changes it; the row keeps its app_id (it is never removed or
\* re-keyed).
C5_FirstTitleWins ==
    [][ /\ \A a \in DOMAIN games : a \in DOMAIN games' /\ games'[a].title = games[a].title
        /\ \A a \in DOMAIN games' \ DOMAIN games :
               EngineStep /\ a = entry.appId[1] /\ games'[a].title = entry.title[1]
      ]_vars

\* an existing row has just been updated by a payload carrying another title
C5_Witness ==
    /\ pc = "tally"
    /\ ret = <<FALSE, TRUE>>
    /\ games[entry.appId[1]].title # entry.title[1]
    /\ games[entry.appId[1]].first_seen # games[entry.appId[1]].last_seen

\* C6: in every reachable state every row has report_count >= 1 and
\* first_seen <= last_seen whenever both are non-null.
C6_RowInvariant ==
    \A a \in DOMAIN games :
        /\ games[a].report_count >= 1
        /\ (games[a].first_seen # None /\ games[a].last_seen # None) =>
               games[a].first_seen[1] <= games[a].last_seen[1]

\* a row whose bounds were widened apart by three reconciliations
C6_Witness ==
    \E a \in DOMAIN games :
        /\ games[a].report_count = 3
        /\ games[a].first_seen # None
        /\ games[a].first_seen[1] < games[a].last_seen[1]

\* C7: bounds only widen: no step raises a row's first_seen, lowers its
\* last_seen or turns a present bound into null; and reconciling an
\* observation identical to one already reconciled for that app_id leaves
\* first_seen and last_seen unchanged.
C7_BoundsOnlyWiden ==
    [][ /\ \A a \in DOMAIN games :
             /\ a \in DOMAIN games'
             /\ games[a].first_seen # None =>
                    /\ games'[a].first_seen # None
                    /\ games'[a].first_seen[1] <= games[a].first_seen[1]
             /\ games[a].last_seen # None =>
                    /\ games'[a].last_seen # None
                    /\ games'[a].last_seen[1] >= games[a].last_seen[1]
        /\ (/\ EngineStep
            /\ Normalized(entry)
            /\ <<entry.appId[1], EntryTimestamp(entry, timestamp)>> \in observed) =>
               /\ games'[entry.appId[1]].first_seen = games[entry.appId[1]].first_seen
               /\ games'[entry.appId[1]].last_seen = games[entry.appId[1]].last_seen
      ]_vars

\* a row reconciled three times from two distinct observations (one of them
\* replayed), with its bounds apart
C7_Witness ==
    /\ pc = "tally"
    /\ ret = <<FALSE, TRUE>>
    /\ LET a == entry.appId[1]
       IN  /\ games[a].report_count = 3
           /\ Cardinality(ObservedTs(a)) = 2
           /\ None \notin ObservedTs(a)
           /\ games[a].first_seen[1] < games[a].last_seen[1]

\* C8: a payload whose appId or title is absent or empty is rejected: the
\* step returns "skipped" (neither inserted nor updated), completes (the
\* walker goes on to count it), and leaves the store unchanged.
C8_RejectLeavesStore ==
    [][ (pc = "call" /\ (entry.appId \in {None, Val("")} \/ entry.title \in {None, Val("")})) =>
          /\ pc' = "tally"
          /\ ret' = <<FALSE, FALSE>>
          /\ games' = games ]_vars

\* a payload with an empty title for an app_id that has no row was rejected
\* while the store held another row
C8_Witness ==
    /\ pc = "tally"
    /\ entry.is_object
    /\ entry.appId = Val("10")
    /\ entry.title = Val("")
    /\ DOMAIN games = {"20"}

\* C9: the timestamp applied to an observation is the payload's own
\* `timestamp` field when the payload has that field, and otherwise the
\* fallback inferred from the name of the input: an inserted row carries it
\* in both bounds, an updated row's bounds contain it.
C9_EntryTimestampFirst ==
    [][ (EngineStep /\ Normalized(entry)) =>
          LET id      == entry.appId[1]
              applied == IF Len(entry.timestamp) = 1 THEN entry.timestamp[1] ELSE timestamp
          IN  /\ timestamp \in {ArchiveTimestamp(filename, now, utc_offset) : now \in Clocks}
                             \cup {FileTimestamp(filename, now, utc_offset) : now \in Clocks}
              /\ ret' = <<TRUE, FALSE>> =>
                     (games'[id].first_seen = applied /\ games'[id].last_seen = applied)
              /\ (ret' = <<FALSE, TRUE>> /\ applied # None /\ applied[1] # 0) =>
                     /\ games'[id].first_seen[1] <= applied[1]
                     /\ applied[1] <= games'[id].last_seen[1]
                     /\ applied \in {games'[id].first_seen, games'[id].last_seen}
                            \/ (games'[id].first_seen = games[id].first_seen
                                /\ games'[id].last_seen = games[id].last_seen)
      ]_vars

\* a payload with its own timestamp was inserted from a dated input: the row
\* carries the payload's timestamp, not the input's
C9_Witness ==
    /\ pc = "tally"
    /\ ret = <<TRUE, FALSE>>
    /\ timestamp # None
    /\ entry.timestamp = <<Val(1)>>
    /\ games[entry.appId[1]].first_seen = Val(1)

---------------------------------------------------------------------------
(* Properties of timestamp inference, checked under InferSpec.             *)

\* the proleptic Gregorian date <<year, month, day>> of day number z (days
\* from 1970-01-01): the inverse of the date -> day number conversion
CivilFromDays(z) ==
    LET zz  == z + 719468
        era == zz \div 146097
        doe == zz - era * 146097
        yoe == (doe - doe \div 1460 + doe \div 36524 - doe \div 146096) \div 365
        doy == doe - (365 * yoe + yoe \div 4 - yoe \div 100)
        mp  == (5 * doy + 2) \div 153
        d   == doy - (153 * mp + 2) \div 5 + 1
        m   == IF mp < 10 THEN mp + 3 ELSE mp - 9
        y   == yoe + era * 400
    IN  <<IF m <= 2 THEN y + 1 ELSE y, m, d>>

\* ts is local midnight of day 15 of the given month and year
IsDay15(ts, year, month) ==
    /\ ts # None
    /\ (ts[1] + utc_offset) % 86400 = 0
    /\ CivilFromDays((ts[1] + utc_offset) \div 86400) = <<year, month, 15>>

FourDigitYears == {y \in InferYears : Len(y) = 4}

\* reports_<mon><optional digits>_<YYYY><suffix>
FormName(mon, digits, year, suffix) ==
    ReportsPrefix \o MonthAbbr[mon] \o digits \o <<"_">> \o year \o suffix

\* the names of the form, each with the month and the year it is written with
FormsOf(suffix) ==
    {[mon |-> mon, year |-> ParseInt(y), name |-> FormName(mon, dg, y, suffix)] :
        mon \in 1..12, dg \in InferDigits, y \in FourDigitYears}

ArchiveForms == FormsOf(TarGzSuffix)

JsonForms == FormsOf(JsonSuffix)

\* the forms of the kind of input the name was discovered as
InputForms == IF EndsWith(filename, TarGzSuffix) THEN ArchiveForms ELSE JsonForms

\* the name is of the form (the whole name)
IsOfForm == \E f \in InputForms : filename = f.name

\* the name begins with the form (anything may follow the suffix)
BeginsWithForm == \E f \in InputForms : LitAt(filename, 1, f.name)

\* C10 as stated: every name of the form reports_<mon><digits>_<YYYY>.<ext>
\* gets the timestamp of day 15 of that month and year, and every name that
\* is neither of that form nor contains "piiremoved" gets none.
C10_AsStated ==
    pc = "loop" =>
        /\ \A f \in InputForms :
               filename = f.name => IsDay15(timestamp, f.year, f.mon)
        /\ (~IsOfForm /\ ~Contains(filename, PiiRemoved)) => timestamp = None

\* C10, amended: every name that begins with the form gets the local-midnight
\* timestamp of day 15 of that month and year when the year is at least 1 and
\* none when the year is 0000; every name that neither begins with the form
\* nor contains "piiremoved" gets none.
C10_InferDay15 ==
    pc = "loop" =>
        /\ \A f \in InputForms :
               LitAt(filename, 1, f.name) =>
                   IF f.year >= 1
                   THEN IsDay15(timestamp, f.year, f.mon)
                   ELSE timestamp = None
        /\ (~BeginsWithForm /\ ~Contains(filename, PiiRemoved)) => timestamp = None

\* a dated name with digits after the month and text after the suffix was
\* given a timestamp before 1970, in a zone east of UTC
C10_Witness ==
    /\ pc = "loop"
    /\ BeginsWithForm
    /\ ~IsOfForm
    /\ timestamp # None
    /\ timestamp[1] < 0
    /\ utc_offset > 0
    /\ LitAt(filename, 1, ReportsPrefix \o MonthAbbr[12] \o <<"1","0">>)

\* C11: every name that does not match the month/year grammar but contains
\* "piiremoved" gets the wall-clock time of the call, never "no timestamp".
C11_PiiRemovedGetsClock ==
    (pc = "loop" /\ ~BeginsWithForm /\ Contains(filename, PiiRemoved)) =>
        timestamp \in {Val(now) : now \in Clocks}

---------------------------------------------------------------------------
(* One run of the walker: run, lines 428-499, with the whole of            *)
(* process_archive and process_json_file: discovery, the temporary         *)
(* directory, unreadable archives and payload files, commits, deletion.    *)
(* The walker is at "start" before discovery, at "archives" / "jsons"     *)
(* between two inputs of the loop of that name, at "extract" with the      *)
(* temporary directory made, at "members" between two payload files of an  *)
(* archive, at "load" with a loose file about to be read, and at "done".   *)

MaxMembers == 2

\* payload entries read in one run
MaxRunEntries == 3

\* entries between two checkpoint commits of a loose file: the 10000 of
\* line 380, scaled to the inputs of the model
CheckpointEvery == 2

\* the characters of the names, in code point order
Alphabet ==
    <<".", "0", "1", "2", "3", "4", "5", "6", "7", "8", "9", "_",
      "a", "b", "c", "d", "e", "f", "g", "h", "i", "j", "k", "l", "m",
      "n", "o", "p", "q", "r", "s", "t", "u", "v", "w", "x", "y", "z">>

Ord(c) == CHOOSE i \in 1..Len(Alphabet) : Alphabet[i] = c

\* a < b for two names of one directory, as Path.__lt__ orders them
RECURSIVE PathLess(_, _)
PathLess(a, b) ==
    IF a = << >> THEN b # << >>
    ELSE IF b = << >> THEN FALSE
    ELSE IF a[1] = b[1] THEN PathLess(Tail(a), Tail(b))
    ELSE Ord(a[1]) < Ord(b[1])

\* the order glob() happens to yield: here, the reverse of the sorted one
RECURSIVE sorted_GlobOrder(_)
sorted_GlobOrder(S) ==
    IF S = {} THEN << >>
    ELSE LET m == CHOOSE x \in S : \A y \in S \ {x} : PathLess(y, x)
         IN  <<m>> \o sorted_GlobOrder(S \ {m})

\* sorted(...) of a set of distinct paths
RECURSIVE sorted(_)
sorted(S) ==
    IF S = {} THEN << >>
    ELSE LET m == CHOOSE x \in S : \A y \in S \ {x} : PathLess(x, y)
         IN  <<m>> \o sorted(S \ {m})

get_archive_files(dir) == sorted({f \in dir : EndsWith(f, TarGzSuffix)})

get_json_files(dir) == sorted({f \in dir : EndsWith(f, JsonSuffix)})

\* a file of the directory that neither pattern selects
OtherNames == { <<"r","e","a","d","m","e",".","t","x","t">> }

Directories == {d \cup OtherNames : d \in SUBSET (ArchiveNames \cup JsonNames)}

\* the payload entries of the run's inputs
RunEntries ==
    {e \in ValidEntries : e.title = Val("Foo") /\ e.timestamp = <<>>}
    \cup {NotAnObject}

InArchive == EndsWith(filename, TarGzSuffix)

Counted ==
    [total_entries_processed |-> stats.total_entries_processed + entries_processed,
     total_games_added       |-> stats.total_games_added + games_added,
     total_games_updated     |-> stats.total_games_updated + games_updated]

RunInit ==
    /\ games = << >>
    /\ processed_games = {}
    /\ pc = "start"
    /\ filename = << >>
    /\ timestamp = None
    /\ entry = NoEntry
    /\ ret = <<FALSE, FALSE>>
    /\ entries_processed = 0
    /\ games_added = 0
    /\ games_updated = 0
    /\ stats = NoStats
    /\ utc_offset = 0
    /\ observed = {}
    /\ committed = << >>
    /\ disk \in Directories
    /\ archives = << >>
    /\ json_files = << >>
    /\ idx = 0
    /\ members_left = 0
    /\ scratch = {}
    /\ remove_json \in BOOLEAN
    /\ returned = <<0, 0, 0>>
    /\ log = << >>
    /\ obs_log = << >>
    /\ failed = {}
    /\ conn = "none"
    /\ NoImport

\* run up to its first loop: setup_database, which opens the connection,
\* and the two discoveries (434-445)
Discover ==
    /\ pc = "start"
    /\ archives' = get_archive_files(disk)
    /\ json_files' = get_json_files(disk)
    /\ idx' = 1
    /\ pc' = "archives"
    /\ conn' = "open"
    /\ UNCHANGED <<games, processed_games, filename, timestamp, entry, ret,
                   entries_processed, games_added, games_updated, stats, utc_offset,
                   observed, committed, disk, members_left, scratch, remove_json,
                   returned, log, obs_log, failed,
                   catVars>>

\* the archive loop hands its next archive to process_archive, which infers
\* the timestamp and makes the temporary directory (447-449, 196-246)
ArchiveStart(now) ==
    /\ pc = "archives"
    /\ idx <= Len(archives)
    /\ pc' = "extract"
    /\ filename' = archives[idx]
    /\ timestamp' = ArchiveTimestamp(archives[idx], now, utc_offset)
    /\ entries_processed' = 0
    /\ games_added' = 0
    /\ games_updated' = 0
    /\ scratch' = scratch \cup {archives[idx]}
    /\ log' = Append(log, archives[idx])
    /\ UNCHANGED <<games, processed_games, entry, ret, stats, utc_offset, observed,
                   committed, disk, archives, json_files, idx, members_left,
                   remove_json, returned, obs_log, failed,
                   conn, catVars>>

\* the handler of line 308 reached with the temporary directory left behind
ArchiveAbort_LeavesScratch ==
    /\ pc' = "archives"
    /\ idx' = idx + 1
    /\ scratch' = scratch
    /\ returned' = <<0, 0, 0>>
    /\ filename' = << >>
    /\ timestamp' = None
    /\ entries_processed' = 0
    /\ games_added' = 0
    /\ games_updated' = 0
    /\ members_left' = 0
    /\ UNCHANGED <<games, processed_games, entry, ret, stats, utc_offset, observed,
                   committed, disk, archives, json_files, remove_json, log, obs_log,
                   conn, catVars>>

\* process_archive returns (0, 0, 0) from its handler of line 308: the
\* with-block is left, which removes the temporary directory
ArchiveAbort ==
    /\ pc' = "archives"
    /\ idx' = idx + 1
    /\ scratch' = scratch \ {filename}
    /\ returned' = <<0, 0, 0>>
    /\ filename' = << >>
    /\ timestamp' = None
    /\ entries_processed' = 0
    /\ games_added' = 0
    /\ games_updated' = 0
    /\ members_left' = 0
    /\ UNCHANGED <<games, processed_games, entry, ret, stats, utc_offset, observed,
                   committed, disk, archives, json_files, remove_json, log, obs_log,
                   conn, catVars>>

\* tarfile.open, extractall or the listing of the extracted files raises
\* (248-254)
ExtractFails ==
    /\ pc = "extract"
    /\ ArchiveAbort
    /\ failed' = failed \cup {"extract"}

\* the archive is extracted and its payload files are listed (248-255)
ExtractOk(n) ==
    /\ pc = "extract"
    /\ pc' = "members"
    /\ members_left' = n
    /\ UNCHANGED <<games, processed_games, filename, timestamp, entry, ret,
                   entries_processed, games_added, games_updated, stats, utc_offset,
                   observed, committed, disk, archives, json_files, idx, scratch,
                   remove_json, returned, log, obs_log, failed,
                   conn, catVars>>

\* the error of a payload file reaches the handler of process_archive
MemberMalformed_Propagates ==
    /\ pc = "members"
    /\ members_left > 0
    /\ ArchiveAbort
    /\ failed' = failed \cup {"member"}

\* the next payload file of the archive is no JSON, or cannot be read: the
\* handlers of lines 279-282 log it and the loop goes on
MemberMalformed ==
    /\ pc = "members"
    /\ members_left > 0
    /\ members_left' = members_left - 1
    /\ failed' = failed \cup {"member"}
    /\ UNCHANGED <<games, processed_games, pc, filename, timestamp, entry, ret,
                   entries_processed, games_added, games_updated, stats, utc_offset,
                   observed, committed, disk, archives, json_files, idx, scratch,
                   remove_json, returned, log, obs_log,
                   conn, catVars>>

\* the next payload file of the archive is loaded (259-261)
MemberLoad ==
    /\ pc = "members"
    /\ members_left > 0
    /\ members_left' = members_left - 1
    /\ pc' = "loop"
    /\ UNCHANGED <<games, processed_games, filename, timestamp, entry, ret,
                   entries_processed, games_added, games_updated, stats, utc_offset,
                   observed, committed, disk, archives, json_files, idx, scratch,
                   remove_json, returned, log, obs_log, failed,
                   conn, catVars>>

\* the entries of the payload file are exhausted
MemberEnd ==
    /\ pc = "loop"
    /\ InArchive
    /\ pc' = "members"
    /\ UNCHANGED <<games, processed_games, filename, timestamp, entry, ret,
                   entries_processed, games_added, games_updated, stats, utc_offset,
                   observed, committed, disk, archives, json_files, idx, members_left,
                   scratch, remove_json, returned, log, obs_log, failed,
                   conn, catVars>>

\* process_json_entry inside the run, with the history of its arguments
RunProcessJsonEntry ==
    /\ EngineCall
    /\ obs_log' = Append(obs_log, <<entry, timestamp>>)
    /\ UNCHANGED <<committed, disk, archives, json_files, idx, members_left, scratch,
                   remove_json, returned, log, failed,
                   conn, catVars>>

\* the archive's files are done: the with-block ends, then commit, the
\* statistics and the return (283-306)
ArchiveFinish ==
    /\ pc = "members"
    /\ members_left = 0
    /\ scratch' = scratch \ {filename}
    /\ committed' = games
    /\ stats' = Counted
    /\ returned' = <<entries_processed, games_added, games_updated>>
    /\ pc' = "archives"
    /\ idx' = idx + 1
    /\ filename' = << >>
    /\ timestamp' = None
    /\ entries_processed' = 0
    /\ games_added' = 0
    /\ games_updated' = 0
    /\ UNCHANGED <<games, processed_games, entry, ret, utc_offset, observed, disk,
                   archives, json_files, members_left, remove_json, log, obs_log, failed,
                   conn, catVars>>

\* the archive loop is exhausted; the loop of the loose files starts (456)
ArchivesDone ==
    /\ pc = "archives"
    /\ idx > Len(archives)
    /\ pc' = "jsons"
    /\ idx' = 1
    /\ UNCHANGED <<games, processed_games, filename, timestamp, entry, ret,
                   entries_processed, games_added, games_updated, stats, utc_offset,
                   observed, committed, disk, archives, json_files, members_left,
                   scratch, remove_json, returned, log, obs_log, failed,
                   conn, catVars>>

\* the loop hands its next loose file to process_json_file, which infers
\* the timestamp (456-458, 314-361)
JsonStart(now) ==
    /\ pc = "jsons"
    /\ idx <= Len(json_files)
    /\ pc' = "load"
    /\ filename' = json_files[idx]
    /\ timestamp' = FileTimestamp(json_files[idx], now, utc_offset)
    /\ entries_processed' = 0
    /\ games_added' = 0
    /\ games_updated' = 0
    /\ log' = Append(log, json_files[idx])
    /\ UNCHANGED <<games, processed_games, entry, ret, stats, utc_offset, observed,
                   committed, disk, archives, json_files, idx, members_left, scratch,
                   remove_json, returned, obs_log, failed,
                   conn, catVars>>

\* process_json_file returns (0, 0, 0) from its handler of line 424
JsonAbort ==
    /\ pc' = "jsons"
    /\ idx' = idx + 1
    /\ returned' = <<0, 0, 0>>
    /\ filename' = << >>
    /\ timestamp' = None
    /\ entries_processed' = 0
    /\ games_added' = 0
    /\ games_updated' = 0
    /\ UNCHANGED <<games, processed_games, entry, ret, stats, utc_offset, observed,
                   committed, disk, archives, json_files, members_left, scratch,
                   remove_json, log, obs_log,
                   conn, catVars>>

\* open or json.load raises on the loose file (363-364)
JsonLoadFails ==
    /\ pc = "load"
    /\ JsonAbort
    /\ failed' = failed \cup {"load"}

\* the loose file is loaded (363-364)
JsonLoad ==
    /\ pc = "load"
    /\ pc' = "loop"
    /\ UNCHANGED <<games, processed_games, filename, timestamp, entry, ret,
                   entries_processed, games_added, games_updated, stats, utc_offset,
                   observed, committed, disk, archives, json_files, idx, members_left,
                   scratch, remove_json, returned, log, obs_log, failed,
                   conn, catVars>>

\* the entry loop of a loose file without its checkpoint commit
JsonTally_NoCheckpoint ==
    /\ CountResult
    /\ UNCHANGED <<runVars, catVars>>

\* the body of the entry loop of a loose file: the counting, then the
\* checkpoint commit (374-381)
JsonTally ==
    /\ CountResult
    /\ committed' = IF entries_processed % CheckpointEvery = 0 THEN games ELSE committed
    /\ UNCHANGED <<disk, archives, json_files, idx, members_left, scratch,
                   remove_json, returned, log, obs_log, failed,
                   conn, catVars>>

\* process_json_file removing its file whatever self.remove_json says
JsonFinish_AlwaysRemoves(removed) ==
    /\ pc = "loop"
    /\ ~InArchive
    /\ committed' = games
    /\ stats' = Counted
    /\ disk' = IF removed THEN disk \ {filename} ELSE disk
    /\ returned' = <<entries_processed, games_added, games_updated>>
    /\ pc' = "jsons"
    /\ idx' = idx + 1
    /\ filename' = << >>
    /\ timestamp' = None
    /\ entries_processed' = 0
    /\ games_added' = 0
    /\ games_updated' = 0
    /\ UNCHANGED <<games, processed_games, entry, ret, utc_offset, observed,
                   archives, json_files, members_left, scratch, remove_json, log,
                   obs_log, failed,
                   conn, catVars>>

\* the loose file's entries are done: commit, the statistics, the removal
\* of the file when asked for, which removed tells to have worked, and the
\* return (391-422)
JsonFinish(removed) ==
    /\ pc = "loop"
    /\ ~InArchive
    /\ committed' = games
    /\ stats' = Counted
    /\ disk' = IF remove_json /\ removed THEN disk \ {filename} ELSE disk
    /\ returned' = <<entries_processed, games_added, games_updated>>
    /\ pc' = "jsons"
    /\ idx' = idx + 1
    /\ filename' = << >>
    /\ timestamp' = None
    /\ entries_processed' = 0
    /\ games_added' = 0
    /\ games_updated' = 0
    /\ UNCHANGED <<games, processed_games, entry, ret, utc_offset, observed,
                   archives, json_files, members_left, scratch, remove_json, log,
                   obs_log, failed,
                   conn, catVars>>

\* both loops are exhausted: the final report, the closing of the connection
\* and the return of run (462-499)
RunDone ==
    /\ pc = "jsons"
    /\ idx > Len(json_files)
    /\ pc' = "done"
    /\ conn' = "closed"
    /\ UNCHANGED <<games, processed_games, filename, timestamp, entry, ret,
                   entries_processed, games_added, games_updated, stats, utc_offset,
                   observed, committed, disk, archives, json_files, idx, members_left,
                   scratch, remove_json, returned, log, obs_log, failed,
                   catVars>>

RunNext ==
    \/ Discover
    \/ \E now \in Clocks : ArchiveStart(now)
    \/ ExtractFails
    \/ \E n \in 0..MaxMembers : ExtractOk(n)
    \/ MemberMalformed
    \/ MemberLoad
    \/ Len(obs_log) < MaxRunEntries /\ \E e \in RunEntries : ReadEntry(e)
    \/ RunProcessJsonEntry
    \/ InArchive /\ Tally
    \/ MemberEnd
    \/ ArchiveFinish
    \/ ArchivesDone
    \/ \E now \in Clocks : JsonStart(now)
    \/ JsonLoadFails
    \/ JsonLoad
    \/ ~InArchive /\ JsonTally
    \/ \E removed \in BOOLEAN : JsonFinish(removed)
    \/ RunDone

RunSpec == RunInit /\ [][RunNext]_vars

---------------------------------------------------------------------------
(* Claims about one run of the walker *)

Range(q) == {q[i] : i \in 1..Len(q)}

\* a comes before b in the lexicographic order of their characters: at the
\* first position where they differ a has ended, or holds the lesser one
LexBefore(a, b) ==
    \E k \in 1..(Len(a) + 1) :
        /\ \A i \in 1..(k - 1) : i <= Len(b) /\ a[i] = b[i]
        /\ k <= Len(b)
        /\ k <= Len(a) => Ord(a[k]) < Ord(b[k])

Ascending(q) == \A i, j \in 1..Len(q) : i < j => LexBefore(q[i], q[j])

\* C12: once discovery is over, the inputs handed to process_archive and
\* process_json_file so far are the beginning of: every archive of the
\* directory in lexicographic order, then every loose file in lexicographic
\* order; each once; and at the end of the run they are that whole sequence.
C12_LexicographicOnce ==
    pc # "start" =>
        /\ Range(archives) = {f \in disk : EndsWith(f, TarGzSuffix)}
        /\ {f \in disk : EndsWith(f, JsonSuffix)} \subseteq Range(json_files)
        /\ Range(json_files) \ disk \subseteq Range(log)
        /\ Range(archives) \cup Range(json_files) \subseteq
               ArchiveNames \cup JsonNames
        /\ Ascending(archives)
        /\ Ascending(json_files)
        /\ Len(log) <= Len(archives) + Len(json_files)
        /\ log = SubSeq(archives \o json_files, 1, Len(log))
        /\ pc = "done" => Len(log) = Len(archives) + Len(json_files)

C12_Witness ==
    /\ pc = "done"
    /\ Len(archives) = 2
    /\ Len(json_files) = 2
    /\ Len(log) = 4
    /\ disk # Range(archives) \cup Range(json_files)

\* the store, durable and as the connection sees it, and the totals
StoreAndTotals == <<games, processed_games, committed, stats, observed>>

\* C13: a payload file of an archive that is no JSON counts no entry and
\* changes no store, and the archive goes on with its next file; an archive
\* that cannot be extracted and a loose file that cannot be loaded return
\* (0, 0, 0) with no store change, and the loop goes on with its next input;
\* an archive returns only with all its files visited, and run ends only
\* with all its inputs handed over.
C13_BadInputIsSkipped ==
    /\ [][/\ (pc = "members" /\ failed' # failed) =>
                /\ pc' = "members"
                /\ members_left' = members_left - 1
                /\ entries_processed' = entries_processed
                /\ UNCHANGED <<StoreAndTotals, idx, filename, log>>
          /\ (pc \in {"extract", "load"} /\ failed' # failed) =>
                /\ pc' = IF pc = "extract" THEN "archives" ELSE "jsons"
                /\ idx' = idx + 1
                /\ returned' = <<0, 0, 0>>
                /\ UNCHANGED <<StoreAndTotals, archives, json_files, log>>
          /\ (pc = "members" /\ pc' = "archives") => members_left = 0
          /\ failed' # failed => pc \in {"members", "extract", "load"}]_vars
    /\ [](pc = "done" => log = archives \o json_files)

C13_Witness ==
    /\ pc = "done"
    /\ failed = {"member", "extract", "load"}
    /\ Len(log) = 4
    /\ stats.total_entries_processed = MaxRunEntries
    /\ stats.total_games_added = 2

\* C14: the directory loses a file only in the step that ends
\* process_json_file normally, only with remove_json set, only that file,
\* and with the store committed as the connection sees it; the step that
\* gives a loose file up removes nothing; and whether or not the removal
\* worked, the normal end returns the counters of the file and the loop goes
\* on with the next file.
C14_RemoveAfterCommit ==
    [][/\ disk' # disk =>
            /\ remove_json
            /\ pc = "loop" /\ ~InArchive /\ pc' = "jsons"
            /\ disk' = disk \ {filename}
            /\ committed' = games'
            /\ games' = games
       /\ (pc = "load" /\ pc' = "jsons") => disk' = disk
       /\ (pc = "loop" /\ pc' = "jsons") =>
            /\ returned' = <<entries_processed, games_added, games_updated>>
            /\ idx' = idx + 1]_vars

\* a run that removed its first loose file and failed to remove its second,
\* whose entries it had counted
C14_Witness ==
    /\ pc = "done"
    /\ remove_json
    /\ Len(json_files) = 2
    /\ json_files[1] \notin disk
    /\ json_files[2] \in disk
    /\ returned[1] > 0

---------------------------------------------------------------------------
(* The catalog importer, create_steam_db.py.  The `apps` table is a       *)
(* function from appid, its primary key, to name.  main is at "start"     *)
(* before it runs, at "fetch" with the prompt behind it, at "analyse"     *)
(* with a list fetched, at "populate" with the list analysed, and ends at  *)
(* "no_apps" (line 147), "crashed" (an exception main does not catch) or   *)
(* "done".                                                                 *)

MaxApps == 4

CatIds == {10, 20}

CatNames == {"A", "B"}

\* the items of the remote list
CatApps == [appid : CatIds, name : CatNames]

\* the non-empty lists the remote source may answer with
FetchedLists == UNION {[1..n -> CatApps] : n \in 1..MaxApps}

\* the tables a previous import may have left
Tables == UNION {[D -> CatNames] : D \in SUBSET CatIds}

\* what the operator may type at the prompt
Answers == {<<"y">>, <<"Y">>, <<"n">>, << >>}

\* str.lower() on an answer
lower(a) == [i \in 1..Len(a) |-> IF a[i] = "Y" THEN "y" ELSE a[i]]

EmptyDict == [k \in {} |-> 0]

\* collections.Counter over a list of keys
RECURSIVE Counter(_)
Counter(keys) ==
    IF keys = << >> THEN EmptyDict
    ELSE LET n == Len(keys)
             c == Counter(SubSeq(keys, 1, n - 1))
             k == keys[n]
         IN  IF k \in DOMAIN c THEN [c EXCEPT ![k] = @ + 1]
             ELSE [x \in DOMAIN c \cup {k} |-> IF x = k THEN 1 ELSE c[x]]

\* the loop of lines 56-58 over a defaultdict(set)
RECURSIVE NamesById(_)
NamesById(list) ==
    IF list = << >> THEN EmptyDict
    ELSE LET n == Len(list)
             d == NamesById(SubSeq(list, 1, n - 1))
             k == list[n].appid
         IN  [x \in DOMAIN d \cup {k} |->
                 IF x = k
                 THEN (IF k \in DOMAIN d THEN d[k] ELSE {}) \cup {list[n].name}
                 ELSE d[x]]

\* analyze_duplicates reporting every repeated id under different_names
analyze_duplicates_NamesNotDistinct(list) ==
    LET app_id_counts == Counter([i \in 1..Len(list) |-> list[i].appid])
        app_id_name_counts ==
            Counter([i \in 1..Len(list) |-> <<list[i].appid, list[i].name>>])
        app_id_to_names == NamesById(list)
    IN  [duplicate_ids |->
             [k \in {x \in DOMAIN app_id_counts : app_id_counts[x] > 1}
                 |-> app_id_counts[k]],
         exact_duplicates |->
             [k \in {x \in DOMAIN app_id_name_counts : app_id_name_counts[x] > 1}
                 |-> app_id_name_counts[k]],
         different_names |->
             [k \in {x \in DOMAIN app_id_to_names : app_id_counts[x] > 1}
                 |-> app_id_to_names[k]]]

analyze_duplicates(list) ==
    LET app_id_counts == Counter([i \in 1..Len(list) |-> list[i].appid])
        app_id_name_counts ==
            Counter([i \in 1..Len(list) |-> <<list[i].appid, list[i].name>>])
        app_id_to_names == NamesById(list)
    IN  [duplicate_ids |->
             [k \in {x \in DOMAIN app_id_counts : app_id_counts[x] > 1}
                 |-> app_id_counts[k]],
         exact_duplicates |->
             [k \in {x \in DOMAIN app_id_name_counts : app_id_name_counts[x] > 1}
                 |-> app_id_name_counts[k]],
         different_names |->
             [k \in {x \in DOMAIN app_id_to_names :
                        Cardinality(app_id_to_names[x]) > 1}
                 |-> app_id_to_names[k]]]

\* INSERT OR IGNORE: the row already in the table stays
InsertOrReplace_Ignore(table, app) ==
    [k \in DOMAIN table \cup {app.appid} |->
        IF k \in DOMAIN table THEN table[k] ELSE app.name]

\* INSERT OR REPLACE INTO apps (appid, name) VALUES (?, ?)
InsertOrReplace(table, app) ==
    [k \in DOMAIN table \cup {app.appid} |->
        IF k = app.appid THEN app.name ELSE table[k]]

\* cursor.executemany over app_data, in the order of the list
RECURSIVE executemany(_, _)
executemany(table, app_data) ==
    IF app_data = << >> THEN table
    ELSE executemany(InsertOrReplace(table, Head(app_data)), Tail(app_data))

\* the walker does not run
NoWalk ==
    /\ games = << >>
    /\ processed_games = {}
    /\ pc = "idle"
    /\ filename = << >>
    /\ timestamp = None
    /\ entry = NoEntry
    /\ ret = <<FALSE, FALSE>>
    /\ entries_processed = 0
    /\ games_added = 0
    /\ games_updated = 0
    /\ stats = NoStats
    /\ utc_offset = 0
    /\ observed = {}

walkVars == <<games, processed_games, pc, filename, timestamp, entry, ret,
              entries_processed, games_added, games_updated, stats, utc_offset,
              observed, runVars>>

CatInit ==
    /\ NoWalk
    /\ NoRun
    /\ apps_table \in Tables
    /\ apps_before = apps_table
    /\ cat_pc = "start"
    /\ reset_choice = << >>
    /\ apps = << >>
    /\ duplicate_analysis = << >>
    /\ inserted_count = 0

\* main up to the fetch: create_database, check_database_state and, with
\* rows in the table, the prompt and reset_database (119-138)
Prompt(answer) ==
    /\ cat_pc = "start"
    /\ apps_table # EmptyDict
    /\ reset_choice' = answer
    /\ apps_table' = IF lower(answer) = <<"y">> THEN EmptyDict ELSE apps_table
    /\ cat_pc' = "fetch"
    /\ UNCHANGED <<apps, duplicate_analysis, inserted_count, apps_before, walkVars>>

\* main up to the fetch when the table is empty: no prompt
NoPrompt ==
    /\ cat_pc = "start"
    /\ apps_table = EmptyDict
    /\ cat_pc' = "fetch"
    /\ UNCHANGED <<apps_table, reset_choice, apps, duplicate_analysis,
                   inserted_count, apps_before, walkVars>>

\* fetch_steam_apps catches a RequestException and returns []; main then
\* reports and returns (36-38, 144-147)
FetchFails ==
    /\ cat_pc = "fetch"
    /\ apps' = << >>
    /\ cat_pc' = "no_apps"
    /\ UNCHANGED <<apps_table, reset_choice, duplicate_analysis, inserted_count,
                   apps_before, walkVars>>

\* the answer lacks data['applist']['apps']: the KeyError of line 35 is not
\* a RequestException and ends main
FetchRaises ==
    /\ cat_pc = "fetch"
    /\ cat_pc' = "crashed"
    /\ UNCHANGED <<apps_table, reset_choice, apps, duplicate_analysis,
                   inserted_count, apps_before, walkVars>>

\* fetch_steam_apps returns the list of the answer (31-35)
FetchOk(list) ==
    /\ cat_pc = "fetch"
    /\ apps' = list
    /\ cat_pc' = "analyse"
    /\ UNCHANGED <<apps_table, reset_choice, duplicate_analysis, inserted_count,
                   apps_before, walkVars>>

\* main analyses the list and reports (150-183)
Analyse ==
    /\ cat_pc = "analyse"
    /\ duplicate_analysis' = analyze_duplicates(apps)
    /\ cat_pc' = "populate"
    /\ UNCHANGED <<apps_table, reset_choice, apps, inserted_count, apps_before,
                   walkVars>>

\* populate_database and the end of main (187-212): the batch and its
\* commit, or on an sqlite3.Error the rollback
Populate(ok) ==
    /\ cat_pc = "populate"
    /\ apps_table' = IF ok THEN executemany(apps_table, apps) ELSE apps_table
    /\ inserted_count' = IF ok THEN Len(apps) ELSE 0
    /\ cat_pc' = "done"
    /\ UNCHANGED <<reset_choice, apps, duplicate_analysis, apps_before, walkVars>>

CatNext ==
    \/ \E answer \in Answers : Prompt(answer)
    \/ NoPrompt
    \/ FetchFails
    \/ FetchRaises
    \/ cat_pc = "fetch" /\ \E list \in FetchedLists : FetchOk(list)
    \/ Analyse
    \/ \E ok \in BOOLEAN : Populate(ok)

CatSpec == CatInit /\ [][CatNext]_vars

---------------------------------------------------------------------------
(* Claims about the catalog importer *)

\* C15: when the fetch failed, main ends with the table holding the rows it
\* held when main started, whatever was typed at the prompt.
C15_FailedFetchKeepsTable ==
    cat_pc \in {"no_apps", "crashed"} => apps_table = apps_before

\* the occurrences of an id, and of a pair, in the fetched list
IdOccurrences(id) == {i \in 1..Len(apps) : apps[i].appid = id}

PairOccurrences(id, name) == {i \in IdOccurrences(id) : apps[i].name = name}

NamesOf(id) == {apps[i].name : i \in IdOccurrences(id)}

\* C16: with the list analysed, duplicate_ids maps exactly the ids occurring
\* more than once to their number of occurrences, exact_duplicates exactly
\* the (id, name) pairs occurring more than once to theirs, and
\* different_names exactly the ids with more than one distinct name to the
\* set of those names.
C16_DuplicateAnalysis ==
    cat_pc \in {"populate", "done"} =>
        /\ duplicate_analysis.duplicate_ids =
               [id \in {x \in CatIds : Cardinality(IdOccurrences(x)) > 1}
                   |-> Cardinality(IdOccurrences(id))]
        /\ duplicate_analysis.exact_duplicates =
               [p \in {x \in CatIds \X CatNames :
                          Cardinality(PairOccurrences(x[1], x[2])) > 1}
                   |-> Cardinality(PairOccurrences(p[1], p[2]))]
        /\ duplicate_analysis.different_names =
               [id \in {x \in CatIds : Cardinality(NamesOf(x)) > 1} |-> NamesOf(id)]

\* id 10 twice with names "A" then "B", id 20 twice with the one name "A"
C16_Witness ==
    /\ cat_pc = "populate"
    /\ apps = <<[appid |-> 10, name |-> "A"], [appid |-> 10, name |-> "B"],
                [appid |-> 20, name |-> "A"], [appid |-> 20, name |-> "A"]>>
    /\ duplicate_analysis.duplicate_ids[10] = 2
    /\ duplicate_analysis.different_names[10] = {"A", "B"}
    /\ duplicate_analysis.exact_duplicates[<<20, "A">>] = 2
    /\ 20 \notin DOMAIN duplicate_analysis.different_names

\* the step in which populate_database commits its batch
UpsertStep == cat_pc = "populate" /\ cat_pc' = "done" /\ inserted_count' = Len(apps)

LastOccurrence(id) ==
    CHOOSE i \in IdOccurrences(id) : \A j \in IdOccurrences(id) : j <= i

\* C17: the committed batch leaves a row for every id of the list, holding
\* the name of the last entry of that id, and leaves every row of an id
\* that is not in the list as it was.
C17_LastEntryWins ==
    [][UpsertStep =>
          /\ DOMAIN apps_table' =
                 DOMAIN apps_table \cup {apps[i].appid : i \in 1..Len(apps)}
          /\ \A id \in DOMAIN apps_table' :
                 apps_table'[id] = IF IdOccurrences(id) # {}
                                   THEN apps[LastOccurrence(id)].name
                                   ELSE apps_table[id]]_vars

\* a batch that held id 10 with two names, "B" the last, over a table that
\* held id 10 as "A" and id 20, which the list lacks
C17_Witness ==
    /\ cat_pc = "done"
    /\ inserted_count = Len(apps)
    /\ Len(apps) = 2
    /\ apps[1] = [appid |-> 10, name |-> "A"]
    /\ apps[2] = [appid |-> 10, name |-> "B"]
    /\ apps_before = [id \in {10, 20} |-> "A"]
    /\ apps_table = [id \in {10, 20} |-> IF id = 10 THEN "B" ELSE "A"]

---------------------------------------------------------------------------
(* The run on a storage that may fail: a statement of process_json_entry   *)
(* or a commit raises sqlite3.Error.  The source never calls rollback.    *)

\* a statement of process_json_entry raises (153, 172, 179): the handler of
\* line 190 logs it and returns (False, False); the statement wrote nothing
EntryWriteFails ==
    /\ pc = "call"
    /\ entry.is_object /\ TruthyStr(entry.appId) /\ TruthyStr(entry.title)
    /\ ret' = <<FALSE, FALSE>>
    /\ pc' = "tally"
    /\ obs_log' = Append(obs_log, <<entry, timestamp>>)
    /\ failed' = failed \cup {"write"}
    /\ UNCHANGED <<games, processed_games, filename, timestamp, entry,
                   entries_processed, games_added, games_updated, stats, utc_offset,
                   observed, committed, disk, archives, json_files, idx,
                   members_left, scratch, remove_json, returned, log, conn, catVars>>

\* the table as the connection sees it after a commit that raised: with
\* kept the transaction stays open (SQLITE_BUSY, "database is locked"),
\* without it SQLite has rolled the transaction back itself (SQLITE_FULL,
\* SQLITE_IOERR)
AfterFailedCommit(kept) == IF kept THEN games ELSE committed

\* the commit of line 283 raises: the handler of line 308 returns (0, 0, 0)
ArchiveCommitFails(kept) ==
    /\ pc = "members"
    /\ members_left = 0
    /\ games' = AfterFailedCommit(kept)
    /\ pc' = "archives"
    /\ idx' = idx + 1
    /\ scratch' = scratch \ {filename}
    /\ returned' = <<0, 0, 0>>
    /\ filename' = << >>
    /\ timestamp' = None
    /\ entries_processed' = 0
    /\ games_added' = 0
    /\ games_updated' = 0
    /\ failed' = failed \cup {"commit"}
    /\ UNCHANGED <<processed_games, entry, ret, stats, utc_offset, observed,
                   committed, disk, archives, json_files, members_left,
                   remove_json, log, obs_log, conn, catVars>>

\* the commit of line 391 raises: the handler of line 424 returns (0, 0, 0)
JsonCommitFails(kept) ==
    /\ pc = "loop"
    /\ ~InArchive
    /\ games' = AfterFailedCommit(kept)
    /\ pc' = "jsons"
    /\ idx' = idx + 1
    /\ returned' = <<0, 0, 0>>
    /\ filename' = << >>
    /\ timestamp' = None
    /\ entries_processed' = 0
    /\ games_added' = 0
    /\ games_updated' = 0
    /\ failed' = failed \cup {"commit"}
    /\ UNCHANGED <<processed_games, entry, ret, stats, utc_offset, observed,
                   committed, disk, archives, json_files, members_left, scratch,
                   remove_json, log, obs_log, conn, catVars>>

\* the checkpoint commit of line 380 raises: the rest of the file is not
\* read, the handler of line 424 returns (0, 0, 0)
CheckpointFails(kept) ==
    /\ pc = "tally"
    /\ ~InArchive
    /\ entries_processed % CheckpointEvery = 0
    /\ games' = AfterFailedCommit(kept)
    /\ pc' = "jsons"
    /\ idx' = idx + 1
    /\ returned' = <<0, 0, 0>>
    /\ filename' = << >>
    /\ timestamp' = None
    /\ entry' = NoEntry
    /\ ret' = <<FALSE, FALSE>>
    /\ entries_processed' = 0
    /\ games_added' = 0
    /\ games_updated' = 0
    /\ failed' = failed \cup {"commit"}
    /\ UNCHANGED <<processed_games, stats, utc_offset, observed, committed,
                   disk, archives, json_files, members_left, scratch, remove_json,
                   log, obs_log, conn, catVars>>

FaultNext ==
    \/ RunNext
    \/ EntryWriteFails
    \/ \E kept \in BOOLEAN : ArchiveCommitFails(kept)
    \/ \E kept \in BOOLEAN : JsonCommitFails(kept)
    \/ \E kept \in BOOLEAN : CheckpointFails(kept)

\* the run starts on a directory of at most two inputs
FaultInit ==
    /\ RunInit
    /\ Cardinality(disk \ OtherNames) <= 2

FaultSpec == FaultInit /\ [][FaultNext]_vars

---------------------------------------------------------------------------
(* Claims about the durability of a run *)

\* the store that reconciling the first k observations of the run, from the
\* empty store, gives
RECURSIVE Replay(_)
Replay(k) ==
    IF k = 0 THEN [games |-> << >>, processed_games |-> {}]
    ELSE LET p == Replay(k - 1)
             r == process_json_entry(p.games, p.processed_games,
                                     obs_log[k][1], obs_log[k][2])
         IN  [games |-> r.games, processed_games |-> r.processed_games]

BetweenInputs == pc \in {"archives", "jsons", "done"}

\* C18: the committed store is always what reconciling some beginning of
\* the run's observations gives, with every row well-formed; between two
\* inputs it is what reconciling all of them gives; and inside a loose file
\* it is so whenever the entries counted are a multiple of the checkpoint
\* size.
C18_CommittedIsPrefix ==
    /\ \E k \in 0..Len(obs_log) : committed = Replay(k).games
    /\ \A a \in DOMAIN committed :
           /\ committed[a].report_count >= 1
           /\ (committed[a].first_seen # None /\ committed[a].last_seen # None) =>
                  committed[a].first_seen[1] <= committed[a].last_seen[1]
    /\ BetweenInputs =>
           /\ committed = games
           /\ committed = Replay(Len(obs_log)).games
    /\ (pc = "loop" /\ ~InArchive /\ entries_processed % CheckpointEvery = 0) =>
           committed = Replay(Len(obs_log)).games

\* inside a loose file, one entry past its first checkpoint: the rows of the
\* checkpoint are committed, the write of the last entry is pending
C18_Witness ==
    /\ pc = "loop"
    /\ ~InArchive
    /\ entries_processed = CheckpointEvery + 1
    /\ committed # << >>
    /\ committed # games
    /\ committed = Replay(Len(obs_log) - 1).games

\* C19: at most one temporary directory exists, and only that of the
\* archive being processed, between its creation and the return of
\* process_archive: none exists when run is between two inputs, in a loose
\* file, or done.
C19_ScratchRemoved ==
    /\ Cardinality(scratch) <= 1
    /\ scratch \subseteq {filename}
    /\ scratch # {} => InArchive /\ pc \in {"extract", "members", "loop", "call", "tally"}
    /\ (InArchive /\ pc \in {"extract", "members", "loop", "call", "tally"}) =>
           scratch = {filename}

\* the second archive has its directory made, after a first archive that
\* could not be extracted
C19_Witness ==
    /\ pc = "extract"
    /\ Len(log) = 2
    /\ scratch = {log[2]}
    /\ failed = {"extract"}

\* C20: the first commit of a run that fails leaves the connection with no
\* pending write (the unit's writes are rolled back, so that no later commit
\* makes them durable), the first statement that fails leaves no write of
\* its own, and in both cases the walker goes on: with the next entry after
\* a statement, with the next input after a commit.
C20_FailureRollsBack ==
    [][/\ "commit" \in failed' \ failed =>
            /\ games' = committed'
            /\ pc' \in {"archives", "jsons"}
            /\ idx' = idx + 1
       /\ "write" \in failed' \ failed =>
            /\ games' = games
            /\ pc' = "tally"]_vars

---------------------------------------------------------------------------
(* The run with the errors that leave its body: an exception raised in     *)
(* setup_database, in discovery or in a report reaches the handler of line *)
(* 495; the finally clause of lines 497-499 closes the connection if there *)
(* is one.  The errors inside process_archive and process_json_file never  *)
(* leave these functions (lines 308, 424).                                 *)

\* print_stats follows every StatsEvery-th archive (line 453)
StatsEvery == 5

\* run is between two inputs and a report lies before the next one: the
\* initial statistics (445), those after an archive (453-454), those after
\* a loose file (460), the final report (462-492)
Reporting ==
    \/ /\ pc = "archives"
       /\ \/ idx = 1
          \/ (idx - 1) % StatsEvery = 0
          \/ idx - 1 = Len(archives)
    \/ /\ pc = "jsons"
       /\ idx > 1 \/ idx > Len(json_files)

\* the handler of line 495 with the connection left as it is
RunFails_NoClose ==
    /\ Reporting
    /\ pc' = "done"
    /\ failed' = failed \cup {"run"}
    /\ UNCHANGED <<games, processed_games, filename, timestamp, entry, ret,
                   entries_processed, games_added, games_updated, stats, utc_offset,
                   observed, committed, disk, archives, json_files, idx, members_left,
                   scratch, remove_json, returned, log, obs_log, conn, catVars>>

\* a report raises (the SELECT of print_stats, get_db_size): the handler of
\* line 495 logs it, the finally clause closes the connection, run returns
RunFails ==
    /\ Reporting
    /\ pc' = "done"
    /\ conn' = "closed"
    /\ failed' = failed \cup {"run"}
    /\ UNCHANGED <<games, processed_games, filename, timestamp, entry, ret,
                   entries_processed, games_added, games_updated, stats, utc_offset,
                   observed, committed, disk, archives, json_files, idx, members_left,
                   scratch, remove_json, returned, log, obs_log, catVars>>

\* setup_database or a discovery raises (434-441): before sqlite3.connect
\* returned there is no connection to close; with opened, connect had
\* returned and the finally clause closes the connection
SetupFails(opened) ==
    /\ pc = "start"
    /\ pc' = "done"
    /\ conn' = IF opened THEN "closed" ELSE "none"
    /\ failed' = failed \cup {"setup"}
    /\ UNCHANGED <<games, processed_games, filename, timestamp, entry, ret,
                   entries_processed, games_added, games_updated, stats, utc_offset,
                   observed, committed, disk, archives, json_files, idx, members_left,
                   scratch, remove_json, returned, log, obs_log, catVars>>

CloseNext ==
    \/ FaultNext
    \/ \E opened \in BOOLEAN : SetupFails(opened)
    \/ RunFails

\* the run starts on a directory of at most one input
CloseInit ==
    /\ RunInit
    /\ Cardinality(disk \ OtherNames) <= 1

\* run is one sequential thread: a step that can be taken is taken
CloseSpec == CloseInit /\ [][CloseNext]_vars /\ WF_vars(CloseNext)

\* C21: run never returns with its connection open, and a connection that
\* is open is eventually closed, whether run ends normally or by an error
\* of setup, discovery, processing or reporting.
C21_HandleClosed ==
    /\ [](pc = "done" => conn # "open")
    /\ [](conn = "none" => pc \in {"start", "done"})
    /\ (conn = "open" ~> conn = "closed")

\* run ended by a failing report, after an input whose commit had failed
\* and left its write pending, with the connection closed
C21_Witness ==
    /\ pc = "done"
    /\ conn = "closed"
    /\ {"commit", "run"} \subseteq failed
    /\ games # committed

====
